---- MODULE Spec2Model ----
(***************************************************************************)
(* Blind price negotiation: the negotiation details page                   *)
(* (NegotiationDetails, src/unnamed/part_002) on top of the hosted         *)
(* datastore (blink.db).  The datastore holds one negotiation under study, *)
(* its price ranges and its deals; every browser page (session) keeps its  *)
(* own React state and runs loadNegotiationData / submitPriceRange, one    *)
(* datastore call (one await) per step.                                    *)
(*                                                                         *)
(* Money: the code computes on JavaScript numbers.  The model keeps every  *)
(* amount as an integer number of 1/Unit currency units, Unit = 2 * 1000,  *)
(* so that the halving of the midpoint and the per-mille fee rates are     *)
(* exact; a whole price p is the amount p * Unit.                          *)
(***************************************************************************)
EXTENDS Integers, Sequences, FiniteSets, TLC

\* ------------------------------------------------------- model parameters
Unit == 2 * 1000

\* null / undefined: the empty sequence; a present record r is <<r>>.
NULL == <<>>
Some(r) == <<r>>
Get(o) == o[1]
\* A JavaScript number is <<amount>>; NaN is the empty sequence.
NaN == <<>>
Num(x) == x[1]
\* An unset counterpartId; a page nobody is signed in on (user === null).
NoUser == "none"

Users == {"alice", "bob", "carol"}
Sessions == {"s1", "s2", "s3"}
Roles == {"buyer", "seller"}

Email(u) == <<u, "@example.com">>

\* The texts a participant can have typed into the two price inputs
\* (React state priceRange) when the button is clicked.
Txt90 == <<"9", "0">>
Txt102 == <<"1", "0", "2">>
FormInputs ==
  { [min |-> Txt90, max |-> Txt90], [min |-> Txt102, max |-> Txt102],
    [min |-> Txt102, max |-> Txt90],
    [min |-> <<"0">>, max |-> Txt90], [min |-> <<"-", "5">>, max |-> Txt90],
    [min |-> Txt90, max |-> <<"a", "b", "c">>], [min |-> <<>>, max |-> Txt90],
    [min |-> <<"x">>, max |-> <<"-", "5">>] }

\* Negotiations every user had initiated before the run; with the
\* negotiation under study the initiator is on the 10-19 tier and the
\* other users on the 0-9 tier.
PriorCount == 9

\* The evaluation on its own (SpecEval): the prices of the two persisted
\* ranges and the earlier negotiations of the user who submits last.
Amount(p) == p * Unit
EvalPrices == {Amount(90), Amount(99), Amount(101), Amount(102), Amount(900), Amount(1000)}
CountSamples == {0, 9, 19, 49, 99, 120}

\* The identifier of the negotiation under study (useParams, line 72).
NegotiationId == "n1"

\* The validity window of a deal in days (line 248).
ValidityDays == 7

\* The days the evaluation can fall on (SpecEval).
MaxDay == 1

\* The ranges persisted in a run: a page whose reload failed can submit
\* again and again.
MaxRanges == 3

\* calculatePlatformFee on its own (SpecFee).
MaxCount == 120
FeeAmounts == {Amount(95), Amount(950), Amount(4750)}

\* ---------------------------------------------------------------- helpers
Digits == {"0", "1", "2", "3", "4", "5", "6", "7", "8", "9"}

DigitValue(c) ==
  CASE c = "0" -> 0 [] c = "1" -> 1 [] c = "2" -> 2 [] c = "3" -> 3
    [] c = "4" -> 4 [] c = "5" -> 5 [] c = "6" -> 6 [] c = "7" -> 7
    [] c = "8" -> 8 [] c = "9" -> 9

\* Length of the longest prefix of s made of digits.
RECURSIVE DigitPrefixLen(_)
DigitPrefixLen(s) ==
  IF s = <<>> \/ Head(s) \notin Digits THEN 0 ELSE 1 + DigitPrefixLen(Tail(s))

RECURSIVE DigitsValue(_, _)
DigitsValue(s, n) ==
  IF n = 0 THEN 0 ELSE DigitsValue(s, n - 1) * 10 + DigitValue(s[n])

\* parseFloat on a text of sign and digits: the longest numeric prefix, NaN
\* when there is none; the number is an amount (1/Unit units).
parseFloat(s) ==
  LET neg  == s # <<>> /\ Head(s) = "-"
      body == IF neg THEN Tail(s) ELSE s
      n    == DigitPrefixLen(body)
  IN  IF n = 0 THEN NaN
      ELSE <<(IF neg THEN -1 ELSE 1) * DigitsValue(body, n) * Unit>>

isNaN(x) == x = NaN

\* Fee rate in thousandths for a negotiation count (lines 165-170).
FeePermille(userNegotiationCount) ==
  IF userNegotiationCount >= 100 THEN 5
  ELSE IF userNegotiationCount >= 50 THEN 7
  ELSE IF userNegotiationCount >= 20 THEN 8
  ELSE IF userNegotiationCount >= 10 THEN 9
  ELSE 10

\* A slip in line 165: no fee from 100 negotiations.
calculatePlatformFee_freeTop(amount, userNegotiationCount) ==
  (amount * (IF userNegotiationCount >= 100 THEN 0
             ELSE IF userNegotiationCount >= 50 THEN 7
             ELSE IF userNegotiationCount >= 20 THEN 8
             ELSE IF userNegotiationCount >= 10 THEN 9
             ELSE 10)) \div 1000

\* A slip in lines 165-166: the rates of the two top tiers exchanged.
calculatePlatformFee_topTiersSwapped(amount, userNegotiationCount) ==
  (amount * (IF userNegotiationCount >= 100 THEN 7
             ELSE IF userNegotiationCount >= 50 THEN 5
             ELSE IF userNegotiationCount >= 20 THEN 8
             ELSE IF userNegotiationCount >= 10 THEN 9
             ELSE 10)) \div 1000

\* A slip in the top threshold: 100 itself stays on the 0.7% tier.
calculatePlatformFee_strict100(amount, userNegotiationCount) ==
  (amount * (IF userNegotiationCount > 100 THEN 5
             ELSE IF userNegotiationCount >= 50 THEN 7
             ELSE IF userNegotiationCount >= 20 THEN 8
             ELSE IF userNegotiationCount >= 10 THEN 9
             ELSE 10)) \div 1000

calculatePlatformFee(amount, userNegotiationCount) ==
  (amount * FeePermille(userNegotiationCount)) \div 1000

\* (buyerRange.maxPrice + sellerRange.minPrice) / 2
ProposedPrice(buyerMax, sellerMin) == (buyerMax + sellerMin) \div 2

FinalPrice(buyerMax, sellerMin, count) ==
  ProposedPrice(buyerMax, sellerMin)
    - calculatePlatformFee(ProposedPrice(buyerMax, sellerMin), count)

\* A slip in line 245: touching ranges do not overlap.
Overlap_strict(buyerMax, sellerMin) == sellerMin < buyerMax

\* The first operand of line 245.
Overlap(buyerMax, sellerMin) == sellerMin <= buyerMax

\* A slip in line 245: the price before the fee is compared.
DealPossible_beforeFee(buyerMax, sellerMin, count) ==
  Overlap(buyerMax, sellerMin) /\ ProposedPrice(buyerMax, sellerMin) >= sellerMin

\* A slip in line 245: the seller must receive more than the floor.
DealPossible_strict(buyerMax, sellerMin, count) ==
  sellerMin <= buyerMax /\ FinalPrice(buyerMax, sellerMin, count) > sellerMin

\* The condition of line 245.
DealPossible(buyerMax, sellerMin, count) ==
  Overlap(buyerMax, sellerMin) /\ FinalPrice(buyerMax, sellerMin, count) >= sellerMin

OppositeRole(r) == IF r = "buyer" THEN "seller" ELSE "buyer"

\* A slip in lines 203-205: everybody gets the initiator's role.
UserRole_asInitiator(neg, u) == neg.initiatorRole

\* The role inference of lines 203-205.
UserRole(neg, u) ==
  IF neg.initiatorId = u THEN neg.initiatorRole
  ELSE OppositeRole(neg.initiatorRole)

\* Array.prototype.find: the first element with the role, NULL when none.
RECURSIVE FindRole(_, _)
FindRole(ranges, role) ==
  IF ranges = <<>> THEN NULL
  ELSE IF Head(ranges).userRole = role THEN Some(Head(ranges))
  ELSE FindRole(Tail(ranges), role)

\* ------------------------------------------------------------------ state
VARIABLES
  dbNegotiation,       \* the negotiation record under study (blink.db.negotiations)
  otherNegotiations,   \* per user: how many other negotiation records they initiated
  dbPriceRanges,       \* blink.db.priceRanges of the negotiation, in creation order
  dbDeals,             \* blink.db.deals of the negotiation, in creation order
  user,                \* per session: the signed-in user of the page, or NoUser
  pc,                  \* per session: the await the page is at
  submittingRange,     \* per session: React state submittingRange
  negotiation,         \* per session: React state negotiation (NULL before load)
  priceRanges,         \* per session: React state priceRanges
  deal,                \* per session: React state deal (NULL when none)
  updatedRanges,       \* per session: the list read at line 221, while in scope
  newDeal,             \* per session: the deal created at line 250, while in scope
  evaluations,         \* history: one entry per run of lines 236-245
  rejected,            \* history: some submission failed the validation
  feeCall,             \* SpecFee: a call of calculatePlatformFee and its result
  now,                 \* the date (new Date()), in days
  caught               \* history: the catch branch of submitPriceRange has run

dbVars == <<dbNegotiation, otherNegotiations, dbPriceRanges, dbDeals>>
pageVars == <<user, pc, submittingRange, negotiation, priceRanges, deal,
              updatedRanges, newDeal>>
vars == <<dbNegotiation, otherNegotiations, dbPriceRanges, dbDeals,
          user, pc, submittingRange, negotiation, priceRanges, deal,
          updatedRanges, newDeal, evaluations, rejected, feeCall, now, caught>>

\* A slip in line 233: the negotiations of the initiator, whoever submits.
NegotiationCount_ofInitiator(u) ==
  otherNegotiations[Get(dbNegotiation).initiatorId] + 1

\* blink.db.negotiations.list({ where: { initiatorId } }).length
NegotiationCount(u) ==
  otherNegotiations[u]
    + (IF dbNegotiation # NULL /\ Get(dbNegotiation).initiatorId = u THEN 1 ELSE 0)

\* The role the details page shows (lines 383-385, 458-460).
userRole(s) ==
  IF Get(negotiation[s]).initiatorId = user[s]
  THEN Get(negotiation[s]).initiatorRole
  ELSE (IF Get(negotiation[s]).initiatorRole = "buyer" THEN "seller" ELSE "buyer")

\* The dashboard lists the negotiation for its initiator and its linked
\* counterpart (Dashboard.tsx, lines 67-82).
DashboardLists(u) ==
  /\ dbNegotiation # NULL
  /\ u \in {Get(dbNegotiation).initiatorId, Get(dbNegotiation).counterpartId}

\* The role the dashboard shows for a listed negotiation (Dashboard.tsx,
\* line 290).
DashboardRole(u) ==
  IF Get(dbNegotiation).initiatorId = u
  THEN Get(dbNegotiation).initiatorRole
  ELSE (IF Get(dbNegotiation).initiatorRole = "buyer" THEN "seller" ELSE "buyer")

\* The deals the dashboard loads for a user, as buyer or as seller
\* (Dashboard.tsx, lines 84-100), by their position in the table.
uniqueDeals(u) ==
  {i \in 1..Len(dbDeals) : u \in {dbDeals[i].buyerId, dbDeals[i].sellerId}}

\* Dashboard.tsx, line 107: the listed negotiations with status 'active'.
activeCount(u) ==
  IF DashboardLists(u) /\ Get(dbNegotiation).status = "active" THEN 1 ELSE 0

\* Dashboard.tsx, line 108: the loaded deals with status 'executed'.
completedCount(u) ==
  Cardinality({i \in uniqueDeals(u) : dbDeals[i].status = "executed"})

userHasSubmittedRange(s) ==
  \E i \in 1..Len(priceRanges[s]) : priceRanges[s][i].userId = user[s]

bothRangesSubmitted(s) == Len(priceRanges[s]) = 2

\* A slip in the progress card: the page tells when the ranges are apart.
Display_showsRanges(s, ranges) ==
  [status |-> Get(negotiation[s]).status,
   role |-> userRole(s),
   counterpart |-> Get(negotiation[s]).counterpartEmail,
   form |-> ~(\E i \in 1..Len(ranges) : ranges[i].userId = user[s])
              /\ Get(negotiation[s]).status = "pending",
   submitting |-> submittingRange[s],
   deal |-> deal[s],
   yourRange |-> \E i \in 1..Len(ranges) : ranges[i].userId = user[s],
   counterpartRange |-> \E i \in 1..Len(ranges) : ranges[i].userId # user[s],
   progress |-> IF deal[s] # NULL THEN "Deal created"
                ELSE IF Len(ranges) = 2
                THEN (IF \E i, j \in 1..Len(ranges) :
                           /\ ranges[i].userRole = "buyer"
                           /\ ranges[j].userRole = "seller"
                           /\ ranges[i].maxPrice < ranges[j].minPrice
                      THEN "Ranges do not overlap" ELSE "No deal possible")
                ELSE "Awaiting deal calculation"]

\* What the details page renders from its React state (lines 390-652) when
\* its priceRanges state is ranges: the status badge, the user's role, the
\* counterpart's e-mail, the submission card, the deal card, the status
\* card and the progress card.
Display(s, ranges) ==
  [status |-> Get(negotiation[s]).status,
   role |-> userRole(s),
   counterpart |-> Get(negotiation[s]).counterpartEmail,
   form |-> ~(\E i \in 1..Len(ranges) : ranges[i].userId = user[s])
              /\ Get(negotiation[s]).status = "pending",
   submitting |-> submittingRange[s],
   deal |-> deal[s],
   yourRange |-> \E i \in 1..Len(ranges) : ranges[i].userId = user[s],
   counterpartRange |-> \E i \in 1..Len(ranges) : ranges[i].userId # user[s],
   progress |-> IF deal[s] # NULL THEN "Deal created"
                ELSE IF Len(ranges) = 2 THEN "No deal possible"
                ELSE "Awaiting deal calculation"]

\* The submission card is rendered (lines 336, 354, 365, 476) and its button
\* enabled (line 529).
FormEnabled(s) ==
  /\ user[s] # NoUser
  /\ pc[s] = "ready"
  /\ negotiation[s] # NULL
  /\ ~userHasSubmittedRange(s)
  /\ Get(negotiation[s]).status = "pending"
  /\ ~submittingRange[s]

\* A slip in line 120: the negotiation is created completed.
NewNegotiation_completed(u, role, email) ==
  [id |-> NegotiationId, initiatorId |-> u, initiatorRole |-> role,
   counterpartEmail |-> email, counterpartId |-> NoUser, status |-> "completed"]

\* The record handleSubmit of CreateNegotiation.tsx creates (lines 111-122).
NewNegotiation(u, role, email) ==
  [id |-> NegotiationId, initiatorId |-> u, initiatorRole |-> role,
   counterpartEmail |-> email, counterpartId |-> NoUser, status |-> "pending"]

\* Pages closed, nothing computed.
PagesClosed ==
  /\ pc = [s \in Sessions |-> "closed"]
  /\ submittingRange = [s \in Sessions |-> FALSE]
  /\ negotiation = [s \in Sessions |-> NULL]
  /\ priceRanges = [s \in Sessions |-> <<>>]
  /\ deal = [s \in Sessions |-> NULL]
  /\ updatedRanges = [s \in Sessions |-> <<>>]
  /\ newDeal = [s \in Sessions |-> NULL]

\* The datastore before the negotiation exists; alice signed in on page s1,
\* bob on s2 and u3 on s3.
InitWith(u3) ==
  /\ dbNegotiation = NULL
  /\ otherNegotiations = [u \in Users |-> PriorCount]
  /\ dbPriceRanges = <<>>
  /\ dbDeals = <<>>
  /\ user = [s \in Sessions |->
        IF s = "s1" THEN "alice" ELSE IF s = "s2" THEN "bob" ELSE u3]
  /\ PagesClosed
  /\ evaluations = {}
  /\ rejected = FALSE
  /\ feeCall = NULL
  /\ now = 0
  /\ caught = FALSE

\* Any of the users is signed in on the third page.
Init == \E u3 \in Users : InitWith(u3)

\* Nobody is signed in on the third page: only the initiator and the
\* invited counterpart take part.
InitPair == InitWith(NoUser)

\* ---------------------------------------------------------------- actions
\* CreateNegotiation.handleSubmit (lines 59-148): the initiator creates the
\* negotiation under study, pending, inviting bob.
handleSubmit(u, role) ==
  /\ dbNegotiation = NULL
  /\ dbNegotiation' = Some(NewNegotiation(u, role, Email("bob")))
  /\ UNCHANGED <<otherNegotiations, dbPriceRanges, dbDeals, pageVars,
                 evaluations, rejected, feeCall, now, caught>>

\* The fields of a negotiation record that the page reads from its React
\* state (id, status, initiatorId, initiatorRole, counterpartEmail).
PageFields == {"id", "initiatorId", "initiatorRole", "counterpartEmail", "status"}
PageCopy(neg) == [f \in PageFields |-> neg[f]]

\* loadNegotiationData, lines 83-155: read the negotiation, link the
\* counterpart when the signed-in user is the invited one, read the ranges
\* and the deals.  The reads are taken as one step: what a page has read
\* only gates its own form (line 476), and the gate opens on a later read of
\* the ranges exactly when it opens on the earlier read of the status.  It
\* runs when the page is mounted with a signed-in user (useEffect, lines
\* 157-161) and again inside submitPriceRange (line 218), which then goes on
\* to line 221.
loadNegotiationData(s) ==
  /\ user[s] # NoUser
  /\ pc[s] \in {"closed", "loading"}
  /\ dbNegotiation # NULL
  /\ LET neg  == Get(dbNegotiation)
         link == neg.counterpartEmail = Email(user[s]) /\ neg.counterpartId = NoUser
     IN  /\ dbNegotiation' = Some(IF link THEN [neg EXCEPT !.counterpartId = user[s]]
                                  ELSE neg)
         /\ negotiation' = [negotiation EXCEPT ![s] = Some(PageCopy(neg))]
  /\ priceRanges' = [priceRanges EXCEPT ![s] = dbPriceRanges]
  /\ deal' = [deal EXCEPT ![s] = IF Len(dbDeals) > 0 THEN Some(dbDeals[1]) ELSE @]
  /\ pc' = [pc EXCEPT ![s] = IF submittingRange[s] THEN "list_updated" ELSE "ready"]
  /\ UNCHANGED <<otherNegotiations, dbPriceRanges, dbDeals, user, submittingRange,
                 updatedRanges, newDeal, evaluations, rejected, feeCall, now, caught>>

\* A slip in lines 203-205: the first range is the buyer's, later ones the
\* seller's.
NewPriceRange_roleByArrival(s, minPrice, maxPrice) ==
  [userId |-> user[s],
   userRole |-> IF dbPriceRanges = <<>> THEN "buyer" ELSE "seller",
   minPrice |-> minPrice, maxPrice |-> maxPrice]

\* The range submitPriceRange persists (lines 202-215).
NewPriceRange(s, minPrice, maxPrice) ==
  [userId |-> user[s], userRole |-> UserRole(Get(negotiation[s]), user[s]),
   minPrice |-> minPrice, maxPrice |-> maxPrice]

\* A slip in the validation: the test of line 190 is missing.
ValidRange_noOrderTest(minPrice, maxPrice) ==
  /\ ~(isNaN(minPrice) \/ isNaN(maxPrice))
  /\ ~(Num(minPrice) <= 0 \/ Num(maxPrice) <= 0)

\* The validation of lines 181 and 190.
ValidRange(minPrice, maxPrice) ==
  /\ ~(isNaN(minPrice) \/ isNaN(maxPrice))
  /\ ~(Num(minPrice) <= 0 \/ Num(maxPrice) <= 0)
  /\ ~(Num(minPrice) > Num(maxPrice))

\* submitPriceRange, lines 175-215: the click, the validation and the
\* creation of the range.
SubmitPriceRange(s, priceRange) ==
  /\ FormEnabled(s)
  /\ Len(dbPriceRanges) < MaxRanges
  /\ priceRange.min # <<>> /\ priceRange.max # <<>>
  /\ LET minPrice == parseFloat(priceRange.min)
         maxPrice == parseFloat(priceRange.max)
     IN  IF ValidRange(minPrice, maxPrice)
         THEN /\ dbPriceRanges' = Append(dbPriceRanges,
                   NewPriceRange(s, Num(minPrice), Num(maxPrice)))
              /\ submittingRange' = [submittingRange EXCEPT ![s] = TRUE]
              /\ pc' = [pc EXCEPT ![s] = "loading"]
              /\ UNCHANGED rejected
         ELSE /\ rejected' = TRUE
              /\ UNCHANGED <<dbPriceRanges, submittingRange, pc>>
  /\ UNCHANGED <<dbNegotiation, otherNegotiations, dbDeals, user, negotiation,
                 priceRanges, deal, updatedRanges, newDeal, evaluations, feeCall, now, caught>>

\* Lines 283-299 on the normal path; the handler's locals go out of scope.
Finish(s) ==
  /\ updatedRanges' = [updatedRanges EXCEPT ![s] = <<>>]
  /\ newDeal' = [newDeal EXCEPT ![s] = NULL]
  /\ submittingRange' = [submittingRange EXCEPT ![s] = FALSE]
  /\ pc' = [pc EXCEPT ![s] = "ready"]

\* A slip in line 225: two ranges or more.
BothRolesPresent_atLeastTwo(ranges) ==
  /\ Len(ranges) >= 2
  /\ FindRole(ranges, "buyer") # NULL
  /\ FindRole(ranges, "seller") # NULL

\* The test of lines 225-230 on the listed ranges.
BothRolesPresent(ranges) ==
  /\ Len(ranges) = 2
  /\ FindRole(ranges, "buyer") # NULL
  /\ FindRole(ranges, "seller") # NULL

\* A slip in line 222: only the user's own ranges are listed.
ListUpdatedRanges_ownRanges(s) ==
  /\ pc[s] = "list_updated"
  /\ LET own == SelectSeq(dbPriceRanges, LAMBDA r : r.userId = user[s])
     IN  IF BothRolesPresent(own)
         THEN /\ updatedRanges' = [updatedRanges EXCEPT ![s] = own]
              /\ pc' = [pc EXCEPT ![s] = "list_user_negotiations"]
              /\ UNCHANGED <<submittingRange, newDeal>>
         ELSE Finish(s)
  /\ UNCHANGED <<dbVars, user, negotiation, priceRanges, deal, evaluations,
                 rejected, feeCall, now, caught>>

\* submitPriceRange, lines 220-230: list the ranges; go on to the
\* evaluation only with two ranges, one per role.
ListUpdatedRanges(s) ==
  /\ pc[s] = "list_updated"
  /\ IF BothRolesPresent(dbPriceRanges)
     THEN /\ updatedRanges' = [updatedRanges EXCEPT ![s] = dbPriceRanges]
          /\ pc' = [pc EXCEPT ![s] = "list_user_negotiations"]
          /\ UNCHANGED <<submittingRange, newDeal>>
     ELSE Finish(s)
  /\ UNCHANGED <<dbVars, user, negotiation, priceRanges, deal, evaluations,
                 rejected, feeCall, now, caught>>

buyerRange(s) == Get(FindRole(updatedRanges[s], "buyer"))
sellerRange(s) == Get(FindRole(updatedRanges[s], "seller"))

\* A slip in lines 236-239: the fee taken on the price after the fee.
NewDeal_feeOnFinal(s, buyer, seller, count) ==
  [negotiationId |-> Get(negotiation[s]).id,
   buyerId |-> buyer.userId, sellerId |-> seller.userId,
   agreedPrice |-> ProposedPrice(buyer.maxPrice, seller.minPrice),
   platformFee |-> calculatePlatformFee(
                     FinalPrice(buyer.maxPrice, seller.minPrice, count), count),
   finalPrice |-> FinalPrice(buyer.maxPrice, seller.minPrice, count),
   validUntil |-> now + ValidityDays,
   status |-> "active"]

\* A slip in lines 247-248: the deadline is the creation date itself.
NewDeal_noWindow(s, buyer, seller, count) ==
  [negotiationId |-> Get(negotiation[s]).id,
   buyerId |-> buyer.userId, sellerId |-> seller.userId,
   agreedPrice |-> ProposedPrice(buyer.maxPrice, seller.minPrice),
   platformFee |-> calculatePlatformFee(
                     ProposedPrice(buyer.maxPrice, seller.minPrice), count),
   finalPrice |-> FinalPrice(buyer.maxPrice, seller.minPrice, count),
   validUntil |-> now,
   status |-> "active"]

\* A slip in lines 236-239: a deal after the first is charged on the next
\* tier.
NewDeal_laterCheaper(s, buyer, seller, count) ==
  [negotiationId |-> Get(negotiation[s]).id,
   buyerId |-> buyer.userId, sellerId |-> seller.userId,
   agreedPrice |-> ProposedPrice(buyer.maxPrice, seller.minPrice),
   platformFee |-> calculatePlatformFee(
                     ProposedPrice(buyer.maxPrice, seller.minPrice),
                     count + 10 * Len(dbDeals)),
   finalPrice |-> FinalPrice(buyer.maxPrice, seller.minPrice, count),
   validUntil |-> now + ValidityDays,
   status |-> "active"]

\* A slip in line 242: the midpoint of the two minimum prices.
NewDeal_midpointOfMins(s, buyer, seller, count) ==
  [negotiationId |-> Get(negotiation[s]).id,
   buyerId |-> buyer.userId, sellerId |-> seller.userId,
   agreedPrice |-> ProposedPrice(buyer.minPrice, seller.minPrice),
   platformFee |-> calculatePlatformFee(
                     ProposedPrice(buyer.minPrice, seller.minPrice), count),
   finalPrice |-> FinalPrice(buyer.minPrice, seller.minPrice, count),
   validUntil |-> now + ValidityDays,
   status |-> "active"]

\* The deal record of lines 250-260.
NewDeal(s, buyer, seller, count) ==
  [negotiationId |-> Get(negotiation[s]).id,
   buyerId |-> buyer.userId, sellerId |-> seller.userId,
   agreedPrice |-> ProposedPrice(buyer.maxPrice, seller.minPrice),
   platformFee |-> calculatePlatformFee(
                     ProposedPrice(buyer.maxPrice, seller.minPrice), count),
   finalPrice |-> FinalPrice(buyer.maxPrice, seller.minPrice, count),
   validUntil |-> now + ValidityDays,
   status |-> "active"]

\* A slip in lines 273-279: the negative outcome thrown as an error.
Evaluate_noDealThrows(s) ==
  /\ pc[s] = "list_user_negotiations"
  /\ LET count  == NegotiationCount(user[s])
         buyer  == buyerRange(s)
         seller == sellerRange(s)
         ok     == DealPossible(buyer.maxPrice, seller.minPrice, count)
     IN  /\ evaluations' = evaluations \cup
              {[session |-> s, count |-> count, buyerMax |-> buyer.maxPrice,
                sellerMin |-> seller.minPrice,
                overlap |-> Overlap(buyer.maxPrice, seller.minPrice),
                proposedPrice |-> ProposedPrice(buyer.maxPrice, seller.minPrice),
                platformFee |-> calculatePlatformFee(
                    ProposedPrice(buyer.maxPrice, seller.minPrice), count),
                finalPrice |-> FinalPrice(buyer.maxPrice, seller.minPrice, count),
                at |-> now, deal |-> ok]}
         /\ IF ok
            THEN /\ dbDeals' = Append(dbDeals, NewDeal(s, buyer, seller, count))
                 /\ newDeal' = [newDeal EXCEPT ![s] =
                                Some(NewDeal(s, buyer, seller, count))]
                 /\ pc' = [pc EXCEPT ![s] = "update_status"]
                 /\ UNCHANGED <<submittingRange, updatedRanges, caught>>
            ELSE /\ Finish(s)
                 /\ caught' = TRUE
                 /\ UNCHANGED dbDeals
  /\ UNCHANGED <<dbNegotiation, otherNegotiations, dbPriceRanges, user,
                 negotiation, priceRanges, deal, rejected, feeCall, now>>

\* submitPriceRange, lines 231-260 and 273-279: count the submitter's
\* negotiations, evaluate, and create the deal when one is possible.
Evaluate(s) ==
  /\ pc[s] = "list_user_negotiations"
  /\ LET count  == NegotiationCount(user[s])
         buyer  == buyerRange(s)
         seller == sellerRange(s)
         ok     == DealPossible(buyer.maxPrice, seller.minPrice, count)
     IN  /\ evaluations' = evaluations \cup
              {[session |-> s, count |-> count, buyerMax |-> buyer.maxPrice,
                sellerMin |-> seller.minPrice,
                overlap |-> Overlap(buyer.maxPrice, seller.minPrice),
                proposedPrice |-> ProposedPrice(buyer.maxPrice, seller.minPrice),
                platformFee |-> calculatePlatformFee(
                    ProposedPrice(buyer.maxPrice, seller.minPrice), count),
                finalPrice |-> FinalPrice(buyer.maxPrice, seller.minPrice, count),
                at |-> now, deal |-> ok]}
         /\ IF ok
            THEN /\ dbDeals' = Append(dbDeals, NewDeal(s, buyer, seller, count))
                 /\ newDeal' = [newDeal EXCEPT ![s] =
                                Some(NewDeal(s, buyer, seller, count))]
                 /\ pc' = [pc EXCEPT ![s] = "update_status"]
                 /\ UNCHANGED <<submittingRange, updatedRanges>>
            ELSE /\ Finish(s)
                 /\ UNCHANGED dbDeals
  /\ UNCHANGED <<dbNegotiation, otherNegotiations, dbPriceRanges, user,
                 negotiation, priceRanges, deal, rejected, feeCall, now, caught>>

\* A slip in lines 262-265: the status update is missing.
UpdateStatus_noFlip(s) ==
  /\ pc[s] = "update_status"
  /\ deal' = [deal EXCEPT ![s] = newDeal[s]]
  /\ Finish(s)
  /\ UNCHANGED <<dbVars, user, negotiation, priceRanges, evaluations, rejected,
                 feeCall, now, caught>>

\* A slip in line 264: the deal's status written to the negotiation.
UpdateStatus_writesActive(s) ==
  /\ pc[s] = "update_status"
  /\ dbNegotiation' = Some([Get(dbNegotiation) EXCEPT !.status = "active"])
  /\ deal' = [deal EXCEPT ![s] = newDeal[s]]
  /\ Finish(s)
  /\ UNCHANGED <<otherNegotiations, dbPriceRanges, dbDeals, user, negotiation,
                 priceRanges, evaluations, rejected, feeCall, now, caught>>

\* submitPriceRange, lines 262-272: flip the status, show the deal.
UpdateStatus(s) ==
  /\ pc[s] = "update_status"
  /\ dbNegotiation' = Some([Get(dbNegotiation) EXCEPT !.status = "completed"])
  /\ deal' = [deal EXCEPT ![s] = newDeal[s]]
  /\ Finish(s)
  /\ UNCHANGED <<otherNegotiations, dbPriceRanges, dbDeals, user, negotiation,
                 priceRanges, evaluations, rejected, feeCall, now, caught>>

Next ==
  \/ \E role \in Roles : handleSubmit("alice", role)
  \/ \E s \in Sessions : loadNegotiationData(s)
  \/ \E s \in Sessions : \E priceRange \in FormInputs : SubmitPriceRange(s, priceRange)
  \/ \E s \in Sessions : ListUpdatedRanges(s)
  \/ \E s \in Sessions : Evaluate(s)
  \/ \E s \in Sessions : UpdateStatus(s)

Spec == Init /\ [][Next]_vars

\* ------------------------------------------- one submission after the other
\* A click while no other page is inside submitPriceRange.
SeqSubmit(s, priceRange) ==
  /\ \A other \in Sessions \ {s} : ~submittingRange[other]
  /\ SubmitPriceRange(s, priceRange)

NextSeq ==
  \/ \E role \in Roles : handleSubmit("alice", role)
  \/ \E s \in Sessions : loadNegotiationData(s)
  \/ \E s \in Sessions : \E priceRange \in FormInputs : SeqSubmit(s, priceRange)
  \/ \E s \in Sessions : ListUpdatedRanges(s)
  \/ \E s \in Sessions : Evaluate(s)
  \/ \E s \in Sessions : UpdateStatus(s)

\* The initiator and the counterpart, submitting one after the other.
SpecSeq == InitPair /\ [][NextSeq]_vars

\* ------------------------------------------------------------- progress
\* A handler that awaits a datastore call goes on when the call returns.
Continue(s) ==
  \/ pc[s] = "loading" /\ loadNegotiationData(s)
  \/ ListUpdatedRanges(s)
  \/ Evaluate(s)
  \/ UpdateStatus(s)

Fairness == \A s \in Sessions : WF_vars(Continue(s))

SpecLive == Init /\ [][Next]_vars /\ Fairness

\* The initiator and the counterpart alone, submitting in any interleaving.
SpecPairLive == InitPair /\ [][Next]_vars /\ Fairness

\* ----------------------------------------------------- datastore failures
\* A datastore call that rejects inside the try of submitPriceRange throws
\* to the catch branch (lines 290-296) and then to finally (297-299).
Catch(s) ==
  /\ caught' = TRUE
  /\ Finish(s)

\* db.priceRanges.create (line 208) rejects: nothing is persisted.
CreateRangeFails(s, priceRange) ==
  /\ FormEnabled(s)
  /\ priceRange.min # <<>> /\ priceRange.max # <<>>
  /\ ValidRange(parseFloat(priceRange.min), parseFloat(priceRange.max))
  /\ Catch(s)
  /\ UNCHANGED <<dbVars, user, negotiation, priceRanges, deal, evaluations,
                 rejected, feeCall, now>>

\* The first read of loadNegotiationData rejects: its own catch (lines
\* 145-151) swallows the error, the page keeps what it had, and a load
\* called from submitPriceRange returns normally to line 221.
LoadFails(s) ==
  /\ user[s] # NoUser
  /\ pc[s] \in {"closed", "loading"}
  /\ pc' = [pc EXCEPT ![s] = IF submittingRange[s] THEN "list_updated" ELSE "ready"]
  /\ UNCHANGED <<dbVars, user, submittingRange, negotiation, priceRanges, deal,
                 updatedRanges, newDeal, evaluations, rejected, feeCall, now, caught>>

\* db.priceRanges.list (line 221) or db.negotiations.list (line 232) rejects.
ListFails(s) ==
  /\ pc[s] \in {"list_updated", "list_user_negotiations"}
  /\ Catch(s)
  /\ UNCHANGED <<dbVars, user, negotiation, priceRanges, deal, evaluations,
                 rejected, feeCall, now>>

\* db.deals.create (line 250) rejects: the evaluation was made, the deal
\* is not persisted.
CreateDealFails(s) ==
  /\ pc[s] = "list_user_negotiations"
  /\ LET count  == NegotiationCount(user[s])
         buyer  == buyerRange(s)
         seller == sellerRange(s)
     IN  /\ DealPossible(buyer.maxPrice, seller.minPrice, count)
         /\ evaluations' = evaluations \cup
              {[session |-> s, count |-> count, buyerMax |-> buyer.maxPrice,
                sellerMin |-> seller.minPrice,
                overlap |-> Overlap(buyer.maxPrice, seller.minPrice),
                proposedPrice |-> ProposedPrice(buyer.maxPrice, seller.minPrice),
                platformFee |-> calculatePlatformFee(
                    ProposedPrice(buyer.maxPrice, seller.minPrice), count),
                finalPrice |-> FinalPrice(buyer.maxPrice, seller.minPrice, count),
                at |-> now, deal |-> TRUE]}
  /\ Catch(s)
  /\ UNCHANGED <<dbVars, user, negotiation, priceRanges, deal, rejected,
                 feeCall, now>>

\* db.negotiations.update (line 263) rejects: the deal stays, the status
\* is not flipped, setDeal is not reached.
UpdateFails(s) ==
  /\ pc[s] = "update_status"
  /\ Catch(s)
  /\ UNCHANGED <<dbVars, user, negotiation, priceRanges, deal, evaluations,
                 rejected, feeCall, now>>

NextFail ==
  \/ Next
  \/ \E s \in Sessions : \E priceRange \in FormInputs : CreateRangeFails(s, priceRange)
  \/ \E s \in Sessions : LoadFails(s)
  \/ \E s \in Sessions : ListFails(s)
  \/ \E s \in Sessions : CreateDealFails(s)
  \/ \E s \in Sessions : UpdateFails(s)

\* The initiator and the counterpart on a datastore whose calls can fail.
SpecFail == InitPair /\ [][NextFail]_vars

\* --------------------------------------------- the evaluation on its own
\* Two valid ranges are persisted, one per role, with any prices of
\* EvalPrices; the user who submitted second (alice or bob) is on page s1,
\* back from the reload of line 218 and about to list the ranges.
EvalInit ==
  \E role \in Roles, last \in {"alice", "bob"}, c \in CountSamples,
     bmin, bmax, smin, smax \in EvalPrices :
    LET neg    == [NewNegotiation("alice", role, Email("bob")) EXCEPT !.counterpartId = "bob"]
        first  == IF last = "alice" THEN "bob" ELSE "alice"
        rangeOf(u) ==
          [userId |-> u, userRole |-> UserRole(neg, u),
           minPrice |-> IF UserRole(neg, u) = "buyer" THEN bmin ELSE smin,
           maxPrice |-> IF UserRole(neg, u) = "buyer" THEN bmax ELSE smax]
    IN  /\ bmin <= bmax /\ smin <= smax
        /\ dbNegotiation = Some(neg)
        /\ otherNegotiations = [u \in Users |-> IF u = last THEN c ELSE PriorCount]
        /\ dbPriceRanges = <<rangeOf(first), rangeOf(last)>>
        /\ dbDeals = <<>>
        /\ user = [s \in Sessions |-> IF s = "s1" THEN last ELSE NoUser]
        /\ pc = [s \in Sessions |-> IF s = "s1" THEN "list_updated" ELSE "closed"]
        /\ submittingRange = [s \in Sessions |-> s = "s1"]
        /\ negotiation = [s \in Sessions |-> IF s = "s1" THEN Some(PageCopy(neg)) ELSE NULL]
        /\ priceRanges = [s \in Sessions |->
                            IF s = "s1" THEN <<rangeOf(first), rangeOf(last)>> ELSE <<>>]
        /\ deal = [s \in Sessions |-> NULL]
        /\ updatedRanges = [s \in Sessions |-> <<>>]
        /\ newDeal = [s \in Sessions |-> NULL]
        /\ evaluations = {}
        /\ rejected = FALSE
        /\ feeCall = NULL
        /\ now = 0
        /\ caught = FALSE

\* A day passes.
Tick ==
  /\ now < MaxDay
  /\ now' = now + 1
  /\ UNCHANGED <<dbVars, pageVars, evaluations, rejected, feeCall, caught>>

EvalNext ==
  \/ \E s \in Sessions : ListUpdatedRanges(s)
  \/ \E s \in Sessions : Evaluate(s)
  \/ \E s \in Sessions : UpdateStatus(s)
  \/ Tick

SpecEval == EvalInit /\ [][EvalNext]_vars

\* ------------------------------------- two evaluations of the same ranges
\* The other negotiations of alice and of bob in SpecRace.
RaceCounts == {8, 9, 10}

\* alice (s1) and bob (s2) have submitted at the same time: both ranges are
\* persisted and both pages are back from the reload of line 218, about to
\* list the ranges.
RaceInit ==
  \E role \in Roles, ca, cb \in RaceCounts, bmax, smin \in EvalPrices :
    LET neg == [NewNegotiation("alice", role, Email("bob")) EXCEPT !.counterpartId = "bob"]
        rangeOf(u) ==
          [userId |-> u, userRole |-> UserRole(neg, u),
           minPrice |-> IF UserRole(neg, u) = "buyer" THEN bmax ELSE smin,
           maxPrice |-> IF UserRole(neg, u) = "buyer" THEN bmax ELSE smin]
        both == {"s1", "s2"}
    IN  /\ dbNegotiation = Some(neg)
        /\ otherNegotiations = [u \in Users |->
              IF u = "alice" THEN ca ELSE IF u = "bob" THEN cb ELSE PriorCount]
        /\ dbPriceRanges = <<rangeOf("alice"), rangeOf("bob")>>
        /\ dbDeals = <<>>
        /\ user = [s \in Sessions |->
              IF s = "s1" THEN "alice" ELSE IF s = "s2" THEN "bob" ELSE NoUser]
        /\ pc = [s \in Sessions |-> IF s \in both THEN "list_updated" ELSE "closed"]
        /\ submittingRange = [s \in Sessions |-> s \in both]
        /\ negotiation = [s \in Sessions |->
              IF s \in both THEN Some(PageCopy(neg)) ELSE NULL]
        /\ priceRanges = [s \in Sessions |->
              IF s \in both THEN <<rangeOf("alice"), rangeOf("bob")>> ELSE <<>>]
        /\ deal = [s \in Sessions |-> NULL]
        /\ updatedRanges = [s \in Sessions |-> <<>>]
        /\ newDeal = [s \in Sessions |-> NULL]
        /\ evaluations = {}
        /\ rejected = FALSE
        /\ feeCall = NULL
        /\ now = 0
        /\ caught = FALSE

RaceNext ==
  \/ \E s \in Sessions : ListUpdatedRanges(s)
  \/ \E s \in Sessions : Evaluate(s)
  \/ \E s \in Sessions : UpdateStatus(s)

SpecRace == RaceInit /\ [][RaceNext]_vars

\* ------------------------------------------ calculatePlatformFee on its own
FeeInit ==
  /\ dbNegotiation = NULL
  /\ otherNegotiations = [u \in Users |-> PriorCount]
  /\ dbPriceRanges = <<>>
  /\ dbDeals = <<>>
  /\ user = [s \in Sessions |-> NoUser]
  /\ PagesClosed
  /\ evaluations = {}
  /\ rejected = FALSE
  /\ now = 0
  /\ caught = FALSE
  /\ \E amount \in FeeAmounts, count \in 0..MaxCount :
       feeCall = Some([amount |-> amount, userNegotiationCount |-> count, result |-> NULL])

\* The call returns (lines 163-173).
FeeReturn ==
  /\ feeCall # NULL
  /\ Get(feeCall).result = NULL
  /\ feeCall' = Some([Get(feeCall) EXCEPT !.result =
        Some(calculatePlatformFee(Get(feeCall).amount, Get(feeCall).userNegotiationCount))])
  /\ UNCHANGED <<dbVars, pageVars, evaluations, rejected, now, caught>>

SpecFee == FeeInit /\ [][FeeReturn]_vars

\* ================================================================ claims
\* The fee schedule as the specification states it: thousandths of the
\* agreed price, by negotiation count.
TierPermille(count) ==
  CASE count \in 0..9 -> 10
    [] count \in 10..19 -> 9
    [] count \in 20..49 -> 8
    [] count \in 50..99 -> 7
    [] count >= 100 -> 5

\* Whole currency units of an amount that is a whole price.
Whole(amount) == amount \div Unit

\* sellerMin <= buyerMax and (buyerMax + sellerMin)/2 less the fee is at
\* least sellerMin, on whole prices and without any division.
DealCondition(buyerMax, sellerMin, count) ==
  /\ Whole(sellerMin) <= Whole(buyerMax)
  /\ (Whole(buyerMax) + Whole(sellerMin)) * (1000 - TierPermille(count))
       >= 2000 * Whole(sellerMin)

\* C1: the evaluation of submitPriceRange creates a Deal if and only if
\* sellerMin <= buyerMax and finalPrice >= sellerMin, finalPrice being the
\* midpoint less the platform fee; otherwise the result is no deal.
C1_DealIffCondition ==
  /\ evaluations = {} => dbDeals = <<>>
  /\ \A e \in evaluations :
       /\ e.deal <=> DealCondition(e.buyerMax, e.sellerMin, e.count)
       /\ Len(dbDeals) = (IF DealCondition(e.buyerMax, e.sellerMin, e.count) THEN 1 ELSE 0)

\* Overlapping ranges whose margin the fee exceeds: evaluated, no deal.
C1_Witness ==
  /\ pc["s1"] = "ready"
  /\ dbDeals = <<>>
  /\ \E e \in evaluations :
       e.buyerMax = Amount(102) /\ e.sellerMin = Amount(101) /\ ~e.deal

\* C2: a created Deal has agreedPrice = (buyerMax + sellerMin) / 2,
\* platformFee = agreedPrice times the fee rate (taken on the agreed price,
\* not on the final price) and finalPrice = agreedPrice - platformFee.
C2_DealFigures ==
  \A i \in 1..Len(dbDeals) : \A e \in evaluations :
    /\ 2 * dbDeals[i].agreedPrice = e.buyerMax + e.sellerMin
    /\ 1000 * dbDeals[i].platformFee = dbDeals[i].agreedPrice * TierPermille(e.count)
    /\ dbDeals[i].finalPrice = dbDeals[i].agreedPrice - dbDeals[i].platformFee

\* Scenario 1: buyerMax 1000, sellerMin 900, count 0: 950, 9.50, 940.50.
C2_Witness ==
  /\ Len(dbDeals) = 1
  /\ dbDeals[1].agreedPrice = Amount(950)
  /\ 2 * dbDeals[1].platformFee = Amount(19)
  /\ 2 * dbDeals[1].finalPrice = Amount(1881)
  /\ \E e \in evaluations :
       e.count = 0 /\ e.buyerMax = Amount(1000) /\ e.sellerMin = Amount(900)

\* C3: calculatePlatformFee returns the amount times the rate of the first
\* matching threshold: 0.5% from 100, 0.7% for 50-99, 0.8% for 20-49, 0.9%
\* for 10-19, 1.0% for 0-9, for every non-negative count.
C3_FeeSchedule ==
  (feeCall # NULL /\ Get(feeCall).result # NULL) =>
    1000 * Get(Get(feeCall).result)
      = Get(feeCall).amount * TierPermille(Get(feeCall).userNegotiationCount)

\* Scenario 4: 4750 at count 120 costs 23.75; and 950 at the threshold 100
\* costs 4.75.
C3_Witness ==
  /\ feeCall # NULL
  /\ Get(feeCall).amount = Amount(950)
  /\ Get(feeCall).userNegotiationCount = 100
  /\ Get(feeCall).result = Some(Amount(19) \div 4)

\* The status of the negotiation in the datastore.
Status == IF dbNegotiation = NULL THEN "none" ELSE Get(dbNegotiation).status

IsPrefix(a, b) == Len(a) <= Len(b) /\ SubSeq(b, 1, Len(a)) = a

\* C4: at most one Deal record is ever created per negotiation, under
\* every interleaving of the participants' submitPriceRange calls: the
\* evaluation and deal creation run at most once.
C4_AtMostOneDeal ==
  /\ Len(dbDeals) <= 1
  /\ Cardinality(evaluations) <= 1

\* C5: there is at most one PriceRange per participant of the negotiation,
\* and a persisted PriceRange is never mutated or deleted.
C5_OneRangePerParticipant ==
  /\ [](\A i, j \in 1..Len(dbPriceRanges) :
          dbPriceRanges[i].userId = dbPriceRanges[j].userId => i = j)
  /\ [][IsPrefix(dbPriceRanges, dbPriceRanges')]_vars

\* The inputs the claim calls valid: numeric, strictly positive, min <= max.
ValidInputs ==
  { [min |-> Txt90, max |-> Txt90], [min |-> Txt102, max |-> Txt102],
    [min |-> Txt90, max |-> Txt102] }

\* C6: every persisted PriceRange has 0 < minPrice <= maxPrice; a
\* submission with a non-numeric or non-positive bound, or with min > max,
\* is rejected before anything is written: no range, no evaluation, no
\* deal, no status change.
C6_InvalidRejected ==
  /\ [](\A i \in 1..Len(dbPriceRanges) :
          0 < dbPriceRanges[i].minPrice
          /\ dbPriceRanges[i].minPrice <= dbPriceRanges[i].maxPrice)
  /\ [][\A s \in Sessions : \A priceRange \in FormInputs \ ValidInputs :
          SubmitPriceRange(s, priceRange) =>
            /\ UNCHANGED <<dbVars, pc, evaluations>>
            /\ rejected']_vars

\* A submission was rejected, another one was persisted.
C6_Witness == rejected /\ dbPriceRanges # <<>>

\* C7: every persisted Deal has finalPrice = agreedPrice - platformFee,
\* platformFee >= 0 and finalPrice >= the minPrice of the seller-role range
\* of the negotiation.
C7_DealInvariant ==
  \A i \in 1..Len(dbDeals) :
    /\ dbDeals[i].finalPrice = dbDeals[i].agreedPrice - dbDeals[i].platformFee
    /\ dbDeals[i].platformFee >= 0
    /\ \A j \in 1..Len(dbPriceRanges) :
         dbPriceRanges[j].userRole = "seller" =>
           dbDeals[i].finalPrice >= dbPriceRanges[j].minPrice

\* Exactly two ranges, one of each role.
OneRangePerRole(ranges) ==
  /\ Len(ranges) = 2
  /\ {ranges[1].userRole, ranges[2].userRole} = {"buyer", "seller"}

\* C8: evaluation is attempted only when the ranges listed for the
\* negotiation are exactly two, one of each role; a submission that lists
\* anything else creates no Deal and leaves the status unchanged.
C8_EvaluationGate ==
  [][/\ \A s \in Sessions :
          (pc[s] = "list_updated" /\ pc'[s] # "list_updated"
             /\ ~OneRangePerRole(dbPriceRanges)) =>
            /\ pc'[s] = "ready"
            /\ UNCHANGED <<dbDeals, dbNegotiation, evaluations>>
     /\ (dbDeals' # dbDeals \/ evaluations' # evaluations
           \/ (Status # "none" /\ Status' # Status)) =>
          \E s \in Sessions :
            /\ pc[s] \in {"list_user_negotiations", "update_status"}
            /\ pc'[s] # pc[s]
            /\ OneRangePerRole(updatedRanges[s])]_vars

\* Two ranges of the same role were submitted and listed: nothing was
\* evaluated, no deal, the status still pending.
C8_Witness ==
  /\ Len(dbPriceRanges) = 2
  /\ dbPriceRanges[1].userRole = dbPriceRanges[2].userRole
  /\ \A s \in Sessions : pc[s] \in {"closed", "ready"}
  /\ evaluations = {} /\ dbDeals = <<>> /\ Status = "pending"

\* C9: when the initiator and the counterpart submit one valid range each,
\* one after the other, the first submission triggers no evaluation and the
\* second exactly one; afterwards there is one Deal and the status is
\* completed, or no Deal and the status is pending.
C9_Sequential ==
  /\ Len(dbPriceRanges) <= 1 => (evaluations = {} /\ dbDeals = <<>>)
  /\ Cardinality(evaluations) <= 1
  /\ \A e \in evaluations : user[e.session] = dbPriceRanges[2].userId
  /\ (Len(dbPriceRanges) = 2 /\ \A s \in Sessions : pc[s] \in {"closed", "ready"}) =>
       /\ Cardinality(evaluations) = 1
       /\ \/ Len(dbDeals) = 1 /\ Status = "completed"
          \/ dbDeals = <<>> /\ Status = "pending"

\* Both have submitted, the second submission found the deal.
C9_Witness ==
  /\ Len(dbPriceRanges) = 2
  /\ \A s \in Sessions : pc[s] \in {"closed", "ready"}
  /\ Len(dbDeals) = 1 /\ Status = "completed"

\* C10: once a Deal is created the status of the negotiation becomes
\* completed, and a completed status is never changed again.
C10_StatusFlips ==
  /\ (dbDeals # <<>>) ~> (Status = "completed")
  /\ [][Status = "completed" => Status' = "completed"]_vars

\* A deal exists and the status was flipped.
C10_Witness == dbDeals # <<>> /\ Status = "completed"

\* C11 as stated: the count used for the fee tier is the number of past
\* negotiations the requester initiated, the one being evaluated not among
\* them.
C11_PastCount ==
  \A e \in evaluations : e.count = otherNegotiations[user[e.session]]

\* C11: the count used for the fee tier is the number of negotiations
\* initiated by the user whose submission triggers the evaluation, the
\* negotiation being evaluated included when that user is its initiator;
\* the count influences the outcome only through the fee rate.
C11_RequesterCount ==
  \A e \in evaluations :
    /\ e.count = otherNegotiations[user[e.session]]
         + (IF Get(dbNegotiation).initiatorId = user[e.session] THEN 1 ELSE 0)
    /\ \A c \in 0..(MaxCount + 1) :
         TierPermille(c) = TierPermille(e.count) =>
           /\ e.deal <=> DealCondition(e.buyerMax, e.sellerMin, c)
           /\ 1000 * e.platformFee = e.proposedPrice * TierPermille(c)
           /\ e.finalPrice = e.proposedPrice - e.platformFee

\* The initiator, with 9 other negotiations, submits last: count 10, a deal.
C11_Witness ==
  \E e \in evaluations :
    /\ user[e.session] = Get(dbNegotiation).initiatorId
    /\ otherNegotiations[user[e.session]] = 9
    /\ e.count = 10
    /\ e.deal

\* C12: the platform fee is non-increasing in the negotiation count: for
\* counts c1 <= c2 and every positive amount,
\* fee(amount, c2) <= fee(amount, c1).
C12_FeeMonotone ==
  (feeCall # NULL /\ Get(feeCall).result # NULL) =>
    LET call == Get(feeCall)
        fee  == Get(call.result)
    IN  /\ \A c1 \in 0..call.userNegotiationCount :
             fee <= calculatePlatformFee(call.amount, c1)
        /\ \A c2 \in call.userNegotiationCount..MaxCount :
             calculatePlatformFee(call.amount, c2) <= fee

\* Across the boundary 10: 950 costs 8.55 at count 10 and more at count 9.
C12_Witness ==
  /\ feeCall # NULL
  /\ Get(feeCall).amount = Amount(950)
  /\ Get(feeCall).userNegotiationCount = 10
  /\ Get(feeCall).result = Some(Amount(171) \div 20)
  /\ calculatePlatformFee(Amount(950), 9) > Amount(171) \div 20

\* C13: sellerMin = buyerMax is treated as an overlap (the test is
\* inclusive) and the candidate agreed price is that boundary value.
C13_BoundaryOverlap ==
  \A e \in evaluations :
    e.sellerMin = e.buyerMax =>
      /\ e.overlap
      /\ e.proposedPrice = e.buyerMax
      /\ e.proposedPrice = e.sellerMin

\* Buyer's maximum and seller's minimum both 99: evaluated as overlapping,
\* candidate price 99.
C13_Witness ==
  \E e \in evaluations :
    /\ e.buyerMax = Amount(99) /\ e.sellerMin = Amount(99)
    /\ e.overlap
    /\ e.proposedPrice = Amount(99)

\* C14: a "no deal" outcome is a normal result: when two ranges are
\* evaluated and the deal condition fails, no Deal is created, the status
\* stays pending, the submitted range stays persisted and the catch branch
\* is not taken.
C14_NoDealIsNormal ==
  /\ [][\A s \in Sessions :
          (\E e \in evaluations' \ evaluations : e.session = s /\ ~e.deal) =>
            /\ UNCHANGED <<dbDeals, dbNegotiation, dbPriceRanges, caught>>
            /\ pc'[s] = "ready"
            /\ ~submittingRange'[s]]_vars
  /\ []((evaluations # {} /\ \A e \in evaluations : ~e.deal) =>
          /\ dbDeals = <<>>
          /\ Status = "pending"
          /\ \A e \in evaluations :
               \E i \in 1..Len(dbPriceRanges) :
                 dbPriceRanges[i].userId = user[e.session])

\* Both ranges are persisted, the evaluation found no deal, the handler
\* has returned and no error was ever caught.
C14_Witness ==
  /\ evaluations # {}
  /\ \A e \in evaluations : ~e.deal
  /\ ~caught
  /\ \A s \in Sessions : pc[s] \in {"closed", "ready"}
  /\ Len(dbPriceRanges) = 2
  /\ dbDeals = <<>> /\ Status = "pending"

\* The role of a user as the claim defines it, from the initiator's id and
\* role and the user's id alone.
RoleOf(initiatorId, initiatorRole, currentUserId) ==
  IF currentUserId = initiatorId THEN initiatorRole
  ELSE CHOOSE r \in Roles : r # initiatorRole

\* C15: a user's role is a pure function of (initiatorId, initiatorRole,
\* currentUserId): the initiator's role for the initiator, the opposite one
\* for anybody else; the role stored on a submitted PriceRange and the
\* roles shown on the details page and on the dashboard are this value.
C15_RoleFunction ==
  dbNegotiation # NULL =>
    LET neg == Get(dbNegotiation)
    IN  /\ \A i \in 1..Len(dbPriceRanges) :
             dbPriceRanges[i].userRole
               = RoleOf(neg.initiatorId, neg.initiatorRole, dbPriceRanges[i].userId)
        /\ \A s \in Sessions :
             negotiation[s] # NULL =>
               userRole(s) = RoleOf(neg.initiatorId, neg.initiatorRole, user[s])
        /\ \A u \in Users :
             DashboardLists(u) =>
               DashboardRole(u) = RoleOf(neg.initiatorId, neg.initiatorRole, u)

\* The initiator sells; the counterpart's page shows buyer, the dashboard
\* lists the negotiation for him as buyer and his range is stored as buyer.
C15_Witness ==
  /\ dbNegotiation # NULL
  /\ Get(dbNegotiation).initiatorRole = "seller"
  /\ negotiation["s2"] # NULL /\ userRole("s2") = "buyer"
  /\ DashboardLists("bob") /\ DashboardRole("bob") = "buyer"
  /\ \E i \in 1..Len(dbPriceRanges) :
       dbPriceRanges[i].userId = "bob" /\ dbPriceRanges[i].userRole = "buyer"
  /\ \E i \in 1..Len(dbPriceRanges) :
       dbPriceRanges[i].userId = "alice" /\ dbPriceRanges[i].userRole = "seller"

\* C16: a created Deal carries the userId of the buyer-role range as
\* buyerId, the userId of the seller-role range as sellerId, the
\* negotiation's identifier, status active and a validity deadline 7 days
\* after its creation.
C16_DealFields ==
  \A i \in 1..Len(dbDeals) :
    /\ \E j \in 1..Len(dbPriceRanges) :
         /\ dbPriceRanges[j].userRole = "buyer"
         /\ dbPriceRanges[j].userId = dbDeals[i].buyerId
    /\ \E j \in 1..Len(dbPriceRanges) :
         /\ dbPriceRanges[j].userRole = "seller"
         /\ dbPriceRanges[j].userId = dbDeals[i].sellerId
    /\ dbDeals[i].negotiationId = Get(dbNegotiation).id
    /\ dbDeals[i].status = "active"
    /\ \E e \in evaluations : e.deal /\ dbDeals[i].validUntil = e.at + 7

\* alice sells, bob buys; the deal is created on day 1 and valid until day 8.
C16_Witness ==
  /\ Len(dbDeals) = 1
  /\ dbDeals[1].buyerId = "bob" /\ dbDeals[1].sellerId = "alice"
  /\ dbDeals[1].validUntil = 8
  /\ \E e \in evaluations : e.at = 1 /\ e.deal

Masked(ranges, u, p) ==
  [i \in 1..Len(ranges) |->
     IF ranges[i].userId = u THEN ranges[i]
     ELSE [ranges[i] EXCEPT !.minPrice = p, !.maxPrice = p]]

\* C18: the negotiation is blind: of the counterpart's range the details
\* page shows only whether it has been submitted; the counterpart's
\* minPrice and maxPrice change nothing of what is displayed, save through
\* the evaluation outcome (the deal).
C18_Blind ==
  \A s \in Sessions :
    (user[s] # NoUser /\ negotiation[s] # NULL) =>
      /\ \A p \in {Amount(1), Amount(90), Amount(102)} :
           Display(s, Masked(priceRanges[s], user[s], p)) = Display(s, priceRanges[s])
      /\ Display(s, priceRanges[s]).counterpartRange
           = (\E i \in 1..Len(priceRanges[s]) : priceRanges[s][i].userId # user[s])

\* alice's page holds bob's range (90 to 90) in its state and shows that the
\* counterpart has submitted; no deal is shown.
C18_Witness ==
  /\ negotiation["s1"] # NULL
  /\ \E i \in 1..Len(priceRanges["s1"]) :
       /\ priceRanges["s1"][i].userId = "bob"
       /\ priceRanges["s1"][i].minPrice = Amount(90)
  /\ Display("s1", priceRanges["s1"]).counterpartRange
  /\ Display("s1", priceRanges["s1"]).deal = NULL
  /\ Masked(priceRanges["s1"], "alice", Amount(1)) # priceRanges["s1"]

\* The participant of the negotiation who is not u.
OtherParticipant(u) ==
  IF u = Get(dbNegotiation).initiatorId THEN Get(dbNegotiation).counterpartId
  ELSE Get(dbNegotiation).initiatorId

\* C19: for fixed buyer and seller ranges the outcome (deal or no deal,
\* platformFee, finalPrice) is the same whichever of the two participants
\* submits last: the evaluation made for the last submitter equals the one
\* the other participant would have got as last submitter.
C19_OrderIndependent ==
  \A e \in evaluations :
    LET c == NegotiationCount(OtherParticipant(user[e.session]))
    IN  /\ e.deal <=> DealPossible(e.buyerMax, e.sellerMin, c)
        /\ e.platformFee = calculatePlatformFee(e.proposedPrice, c)
        /\ e.finalPrice = FinalPrice(e.buyerMax, e.sellerMin, c)

\* C20: only the initiator and the invited counterpart (the user whose
\* e-mail is counterpartEmail, whose id is counterpartId) can persist a
\* PriceRange of the negotiation; a submission by any other signed-in user
\* is not recorded.
C20_OnlyParticipants ==
  \A i \in 1..Len(dbPriceRanges) :
    \/ dbPriceRanges[i].userId = Get(dbNegotiation).initiatorId
    \/ dbPriceRanges[i].userId = Get(dbNegotiation).counterpartId
    \/ Email(dbPriceRanges[i].userId) = Get(dbNegotiation).counterpartEmail

\* C21: when both participants have persisted one valid range each (one
\* buyer, one seller), in every interleaving of their two submitPriceRange
\* calls at least one of them sees two ranges and evaluates: the
\* negotiation never comes to rest with both ranges and no evaluation.
C21_SomeoneEvaluates ==
  /\ []((OneRangePerRole(dbPriceRanges)
           /\ \A s \in Sessions : pc[s] \in {"closed", "ready"}) =>
          evaluations # {})
  /\ OneRangePerRole(dbPriceRanges) ~> (evaluations # {})

\* Both ranges were created before either handler listed them; one handler
\* has evaluated while the other is still at its reload.
C21_Witness ==
  /\ OneRangePerRole(dbPriceRanges)
  /\ evaluations # {}
  /\ \E s \in Sessions : pc[s] = "loading" /\ submittingRange[s]

\* C22: a negotiation has status completed only if a Deal record exists for
\* it: the Deal is created before the status is updated and nothing else
\* writes completed.
C22_CompletedHasDeal ==
  /\ [](Status = "completed" => dbDeals # <<>>)
  /\ [][(Status # "completed" /\ Status' = "completed") =>
          /\ dbDeals # <<>>
          /\ \E s \in Sessions :
               /\ pc[s] = "update_status"
               /\ newDeal[s] # NULL
               /\ \E i \in 1..Len(dbDeals) : dbDeals[i] = Get(newDeal[s])]_vars

\* The status has been flipped by the page that had created the deal and now
\* shows it.
C22_Witness ==
  /\ Status = "completed"
  /\ Len(dbDeals) = 1
  /\ \E s \in Sessions : pc[s] = "ready" /\ deal[s] = Some(dbDeals[1])

\* The price fields of a deal record.
Figures(d) ==
  [agreedPrice |-> d.agreedPrice, platformFee |-> d.platformFee,
   finalPrice |-> d.finalPrice]

\* C23: the outcome depends only on buyerMax, sellerMin and the count:
\* with any other valid minPrice of the buyer and any other valid maxPrice
\* of the seller the evaluation decides the same and the Deal has the same
\* agreedPrice, platformFee and finalPrice.
C23_OnlyMaxAndMin ==
  \A e \in evaluations :
    LET buyer  == Get(FindRole(dbPriceRanges, "buyer"))
        seller == Get(FindRole(dbPriceRanges, "seller"))
    IN  \A p, q \in EvalPrices :
          (p <= buyer.maxPrice /\ seller.minPrice <= q) =>
            LET buyer2  == [buyer EXCEPT !.minPrice = p]
                seller2 == [seller EXCEPT !.maxPrice = q]
            IN  /\ e.deal <=> DealPossible(buyer2.maxPrice, seller2.minPrice, e.count)
                /\ e.deal =>
                     /\ Len(dbDeals) = 1
                     /\ Figures(dbDeals[1])
                          = Figures(NewDeal(e.session, buyer2, seller2, e.count))

\* A deal from a buyer's range 90 to 1000 and a seller's range 900 to 1000:
\* the buyer's minimum and the seller's maximum could have been different.
C23_Witness ==
  /\ Len(dbDeals) = 1
  /\ \E i, j \in 1..Len(dbPriceRanges) :
       /\ dbPriceRanges[i].userRole = "buyer"
       /\ dbPriceRanges[i].minPrice = Amount(90)
       /\ dbPriceRanges[i].maxPrice = Amount(1000)
       /\ dbPriceRanges[j].userRole = "seller"
       /\ dbPriceRanges[j].minPrice = Amount(900)
       /\ dbPriceRanges[j].maxPrice = Amount(1000)
  /\ dbDeals[1].agreedPrice = Amount(950)

C26_DistinctParties ==
  /\ \A i \in 1..Len(dbDeals) : dbDeals[i].buyerId # dbDeals[i].sellerId
  /\ \A i, j \in 1..Len(dbPriceRanges) :
       /\ dbPriceRanges[i].userId = dbPriceRanges[j].userId =>
            dbPriceRanges[i].userRole = dbPriceRanges[j].userRole
       /\ dbPriceRanges[i].userRole # dbPriceRanges[j].userRole =>
            (dbPriceRanges[i].userId = Get(dbNegotiation).initiatorId)
              # (dbPriceRanges[j].userId = Get(dbNegotiation).initiatorId)

\* One user has persisted two ranges (C5), both with his one role, and the
\* deal is between two different users.
C26_Witness ==
  /\ \E i, j \in 1..Len(dbPriceRanges) :
       i # j /\ dbPriceRanges[i].userId = dbPriceRanges[j].userId
  /\ Len(dbDeals) >= 1
  /\ dbDeals[1].buyerId # dbDeals[1].sellerId

\* The status values written by the operations, and the dashboard's counts.
C27_Values ==
  /\ Status \in {"none", "pending", "completed"}
  /\ \A i \in 1..Len(dbDeals) : dbDeals[i].status = "active"
  /\ \A u \in Users : activeCount(u) = 0 /\ completedCount(u) = 0

\* C27: a negotiation's status is only ever pending or completed, pending ->
\* completed being the only transition performed, and a deal's status is
\* always active, so the dashboard's 'active' count (negotiations with status
\* active) and 'completed' count (deals with status executed) are 0 in every
\* reachable state.
C27_PendingThenCompleted ==
  /\ []C27_Values
  /\ [][Status' # Status =>
          \/ Status = "none" /\ Status' = "pending"
          \/ Status = "pending" /\ Status' = "completed"]_vars

\* The dashboard of a listed party loads a completed negotiation and two
\* deals, and still counts none of them.
C27_Witness ==
  /\ Status = "completed"
  /\ \E u \in Users :
       /\ DashboardLists(u)
       /\ Cardinality(uniqueDeals(u)) = 2
       /\ activeCount(u) = 0
       /\ completedCount(u) = 0

====
